---- MODULE Spec2Model ----
(***************************************************************************)
(* Scrollbar geometry, hit testing, offset mapping and drawing of the      *)
(* terminal front end (frontends/rioterm/src/renderer/scrollbar.rs) with   *)
(* its configuration record (rio-backend/src/config/scrollbar.rs).         *)
(*                                                                         *)
(* f32 is modelled as a binary floating-point format with round to nearest *)
(* even and gradual underflow, of Prec significand bits instead of 24 and  *)
(* of least quantum 2^-FracBits instead of 2^-149.  A float is the integer *)
(* number of least quanta it holds; every operation computes the exact     *)
(* rational result and rounds it, as IEEE 754 does.  Inputs are finite and *)
(* far below the overflow threshold, so infinities and NaN do not arise.   *)
(***************************************************************************)
EXTENDS Integers, Sequences, FiniteSets

VARIABLES config, args, state, call, result, pc

vars == <<config, args, state, call, result, pc>>

-----------------------------------------------------------------------------
(* Bounds of the floating-point format and of the inputs. *)

Prec == 8
FracBits == 8
MaxSmallHistory == 3
MaxScreenLines == 5

-----------------------------------------------------------------------------
(* Floating-point arithmetic. *)

RECURSIVE Pow2(_)
Pow2(n) == IF n = 0 THEN 1 ELSE 2 * Pow2(n - 1)

\* 1.0 in least quanta.
One == Pow2(FracBits)

Abs(n) == IF n < 0 THEN 0 - n ELSE n

\* 2^Prec: every float is an integer below it times a power of two.
MantissaLimit == Pow2(Prec)

\* The quantum (spacing of representable values) at magnitude a/b, a >= 0, b > 0.
RECURSIVE Quantum(_, _, _)
Quantum(a, b, q) == IF a < b * q * MantissaLimit THEN q ELSE Quantum(a, b, 2 * q)

\* a/b (a >= 0, b > 0) to the nearest integer, ties to even.
NearestEven(a, b) ==
    LET k == a \div b
        r2 == 2 * (a % b)
    IN  IF r2 < b THEN k
        ELSE IF r2 > b THEN k + 1
        ELSE IF k % 2 = 0 THEN k ELSE k + 1

\* The float nearest to the rational a/b (in least quanta), b > 0.
F32Round(a, b) ==
    LET m == Abs(a)
        q == Quantum(m, b, 1)
        r == q * NearestEven(m, b * q)
    IN  IF a < 0 THEN 0 - r ELSE r

FAdd(x, y) == F32Round(x + y, 1)
FSub(x, y) == F32Round(x - y, 1)
FMul(x, y) == F32Round(x * y, One)
FDiv(x, y) == IF y < 0 THEN F32Round((0 - x) * One, 0 - y) ELSE F32Round(x * One, y)

\* usize as f32
UsizeAsF32(n) == F32Round(n * One, 1)

\* f32::round (half away from zero) followed by `as usize` (saturating at 0).
RoundAsUsize(x) == IF x <= 0 THEN 0 ELSE (2 * x + One) \div (2 * One)

FMax(x, y) == IF x >= y THEN x ELSE y

FClamp(x, lo, hi) == IF x < lo THEN lo ELSE IF x > hi THEN hi ELSE x

\* The float of the decimal literal n/d.
Lit(n, d) == F32Round(n * One, d)

Two == 2 * One

-----------------------------------------------------------------------------
(* Configuration (rio-backend/src/config/scrollbar.rs). *)

ScrollbarMode == {"Always", "Auto", "Never"}

default_width == Lit(8, 1)
default_thumb_min_height == Lit(20, 1)
default_border_radius == Lit(4, 1)
default_track_color == <<Lit(25, 100), Lit(25, 100), Lit(25, 100), Lit(25, 100)>>
default_thumb_color == <<Lit(5, 10), Lit(5, 10), Lit(5, 10), Lit(67, 100)>>
default_thumb_hover_color == <<Lit(63, 100), Lit(63, 100), Lit(63, 100), Lit(87, 100)>>

\* Scrollbar::default()
DefaultConfig ==
    [mode |-> "Auto",
     width |-> default_width,
     track_color |-> default_track_color,
     thumb_color |-> default_thumb_color,
     thumb_hover_color |-> default_thumb_hover_color,
     thumb_min_height |-> default_thumb_min_height,
     border_radius |-> default_border_radius]

\* The configurations a session runs under: the default with any mode, and
\* with the thumb's minimum height left at its default or set to zero.
ThumbMinHeights == {0, default_thumb_min_height}

Configs ==
    {[DefaultConfig EXCEPT !.mode = m, !.thumb_min_height = t] :
        m \in ScrollbarMode, t \in ThumbMinHeights}

-----------------------------------------------------------------------------
(* Geometry state (frontends/rioterm/src/renderer/scrollbar.rs). *)

\* ScrollbarState::default()
DefaultState ==
    [x |-> 0,
     track_y |-> 0,
     width |-> Lit(8, 1),
     track_height |-> 0,
     thumb_y |-> 0,
     thumb_height |-> Lit(20, 1),
     visible |-> FALSE,
     hovered |-> FALSE]

\* Mutant of Visible: Auto shows the scrollbar without history.
VisibleAutoAlways(mode, history_size) ==
    CASE mode = "Always" -> TRUE
      [] mode = "Auto" -> TRUE
      [] mode = "Never" -> FALSE

\* Visibility by mode and history.
Visible(mode, history_size) ==
    CASE mode = "Always" -> TRUE
      [] mode = "Auto" -> history_size > 0
      [] mode = "Never" -> FALSE

\* Mutant of ThumbHeight: the minimum height caps the thumb instead of
\* flooring it.
ThumbHeightCapped(track_height, thumb_ratio, min_thumb_height) ==
    LET h == FMul(track_height, thumb_ratio)
    IN  IF h <= min_thumb_height THEN h ELSE min_thumb_height

\* (track_height * thumb_ratio).max(min_thumb_height)
ThumbHeight(track_height, thumb_ratio, min_thumb_height) ==
    FMax(FMul(track_height, thumb_ratio), min_thumb_height)

\* Mutant of ScrollRatio: the offset is taken out of history_size + 1.
ScrollRatioOffByOne(display_offset, history_size) ==
    IF history_size > 0
    THEN FDiv(UsizeAsF32(display_offset), UsizeAsF32(history_size + 1))
    ELSE 0

\* display_offset as f32 / history_size as f32, 0.0 without history.
ScrollRatio(display_offset, history_size) ==
    IF history_size > 0
    THEN FDiv(UsizeAsF32(display_offset), UsizeAsF32(history_size))
    ELSE 0

\* Mutant of ThumbY: the ratio is not inverted (offset 0 at the top).
ThumbYNotInverted(track_y, scroll_ratio, scrollable_range) ==
    FAdd(track_y, FMul(scroll_ratio, scrollable_range))

\* track_y + (1.0 - scroll_ratio) * scrollable_range
ThumbY(track_y, scroll_ratio, scrollable_range) ==
    FAdd(track_y, FMul(FSub(One, scroll_ratio), scrollable_range))

\* ScrollbarState::calculate
calculate(cfg, content_x, content_y, content_width, content_height, display_offset, history_size, screen_lines, scale) ==
    LET visible == Visible(cfg.mode, history_size)
        width == cfg.width
        x == FSub(FAdd(content_x, content_width), width)
        track_y == content_y
        track_height == content_height
        total_lines == history_size + screen_lines
        thumb_ratio == IF total_lines > 0
                       THEN FDiv(UsizeAsF32(screen_lines), UsizeAsF32(total_lines))
                       ELSE One
        min_thumb_height == cfg.thumb_min_height
        thumb_height == ThumbHeight(track_height, thumb_ratio, min_thumb_height)
        scroll_ratio == ScrollRatio(display_offset, history_size)
        scrollable_range == FSub(track_height, thumb_height)
        thumb_y == ThumbY(track_y, scroll_ratio, scrollable_range)
    IN  IF ~visible
        THEN [DefaultState EXCEPT !.visible = FALSE]
        ELSE [x |-> x,
              track_y |-> track_y,
              width |-> width,
              track_height |-> track_height,
              thumb_y |-> thumb_y,
              thumb_height |-> thumb_height,
              visible |-> visible,
              hovered |-> FALSE]

\* Mutant of Logical: the pointer is compared in physical pixels.
LogicalNotScaled(physical, scale) == physical

\* Physical to logical pixels.
Logical(physical, scale) == FDiv(physical, scale)

\* Mutant of OutsideX: the right edge of the track counts as outside.
OutsideXRightExclusive(self, logical_mouse_x) ==
    logical_mouse_x < self.x \/ logical_mouse_x >= FAdd(self.x, self.width)

\* The pointer is left or right of the scrollbar.
OutsideX(self, logical_mouse_x) ==
    logical_mouse_x < self.x \/ logical_mouse_x > FAdd(self.x, self.width)

\* ScrollbarState::hit_test
hit_test(self, mouse_x, mouse_y, scale) ==
    LET logical_mouse_x == Logical(mouse_x, scale)
        logical_mouse_y == Logical(mouse_y, scale)
    IN  IF ~self.visible THEN "None"
        ELSE IF OutsideX(self, logical_mouse_x) THEN "None"
        ELSE IF logical_mouse_y < self.track_y
                \/ logical_mouse_y > FAdd(self.track_y, self.track_height) THEN "None"
        ELSE IF logical_mouse_y >= self.thumb_y
                /\ logical_mouse_y <= FAdd(self.thumb_y, self.thumb_height) THEN "Thumb"
        ELSE IF logical_mouse_y < self.thumb_y THEN "TrackAbove"
        ELSE "TrackBelow"

\* Mutant of ThumbTopY: the pointer is taken as the thumb's top, not its
\* centre.
ThumbTopYNotCentred(logical_y, thumb_height) == logical_y

\* logical_y - self.thumb_height / 2.0
ThumbTopY(logical_y, thumb_height) == FSub(logical_y, FDiv(thumb_height, Two))

\* ScrollbarState::y_to_offset
y_to_offset(self, y, history_size, scale) ==
    LET logical_y == Logical(y, scale)
        scrollable_range == FSub(self.track_height, self.thumb_height)
        thumb_top_y == ThumbTopY(logical_y, self.thumb_height)
        relative_y == FClamp(FSub(thumb_top_y, self.track_y), 0, scrollable_range)
        scroll_ratio == FSub(One, FDiv(relative_y, scrollable_range))
    IN  IF ~self.visible \/ history_size = 0 THEN 0
        ELSE IF scrollable_range <= 0 THEN 0
        ELSE RoundAsUsize(FMul(scroll_ratio, UsizeAsF32(history_size)))

\* Object::Quad(Quad { .. }) as draw_scrollbar builds it.
Quad(color, position, size) ==
    [color |-> color,
     position |-> position,
     size |-> size,
     border_radius |-> <<0, 0, 0, 0>>,
     shadow_blur_radius |-> 0,
     shadow_offset |-> <<0, 0>>,
     shadow_color |-> <<0, 0, 0, 0>>,
     border_color |-> <<0, 0, 0, 0>>,
     border_width |-> 0]

\* Mutant of ThumbColor: the colour follows the state's hovered field.
ThumbColorFromState(st, cfg, hovered) ==
    IF st.hovered THEN cfg.thumb_hover_color ELSE cfg.thumb_color

\* The thumb's colour by the hover flag passed to draw_scrollbar.
ThumbColor(st, cfg, hovered) ==
    IF hovered THEN cfg.thumb_hover_color ELSE cfg.thumb_color

\* Mutant of ThumbPosition: the thumb is drawn at the track's top.
ThumbPositionAtTrack(st) == <<st.x, st.track_y>>

\* position: [state.x, state.thumb_y]
ThumbPosition(st) == <<st.x, st.thumb_y>>

\* draw_scrollbar
draw_scrollbar(st, cfg, hovered) ==
    LET track == Quad(cfg.track_color, <<st.x, st.track_y>>,
                      <<st.width, st.track_height>>)
        thumb_color == ThumbColor(st, cfg, hovered)
        thumb == Quad(thumb_color, ThumbPosition(st),
                      <<st.width, st.thumb_height>>)
    IN  IF ~st.visible THEN <<>> ELSE <<track, thumb>>

-----------------------------------------------------------------------------
(* Inputs of the operations. *)

\* The largest history size below 2^Prec, which `as f32` converts exactly, and
\* one above 2^Prec that it rounds up.
LargestExactHistory == MantissaLimit - 1
InexactHistory == MantissaLimit + 3

ContentXs == {Lit(1, 1)}
ContentYs == {0, Lit(41, 4)}
ContentWidths == {Lit(16, 1)}
ContentHeights == {Lit(10, 1), Lit(20, 1), Lit(27, 1)}
HistorySizes == {0, 1, MaxSmallHistory, 8, LargestExactHistory}
ScreenLines == {0, 1, MaxScreenLines}
Scales == {One, Lit(3, 2)}

\* display_offset is not checked against history_size: offsets at both ends
\* of the range and one past it.
DisplayOffsets(history_size) ==
    {d \in 0..(history_size + 1) : d <= 1 \/ d >= history_size - 1}

\* Logical pointer positions around the edges of the track and of the thumb.
PointerXs(st) ==
    {FSub(st.x, One), st.x, FAdd(st.x, FDiv(st.width, Two)),
     FAdd(st.x, st.width), FAdd(FAdd(st.x, st.width), One)}

PointerYs(st) ==
    {FSub(st.track_y, One), st.track_y, st.thumb_y,
     FAdd(st.thumb_y, FDiv(st.thumb_height, Two)),
     FAdd(st.thumb_y, st.thumb_height),
     FAdd(st.track_y, st.track_height),
     FAdd(FAdd(st.track_y, st.track_height), One)}

NoArgs ==
    [content_x |-> 0, content_y |-> 0, content_width |-> 0, content_height |-> 0,
     display_offset |-> 0, history_size |-> 0, screen_lines |-> 0]

NoCall == [op |-> "none", x |-> 0, y |-> 0, scale |-> One, history_size |-> 0,
           hovered |-> FALSE]

NoResult == [hit |-> "None", offset |-> 0, objects |-> <<>>]

-----------------------------------------------------------------------------
(* The host's use of the scrollbar: a geometry state is computed for a      *)
(* frame, then drawn, or queried by a pointer event.                       *)

Init ==
    /\ config \in Configs
    /\ args = NoArgs
    /\ state = DefaultState
    /\ call = NoCall
    /\ result = NoResult
    /\ pc = "idle"

\* The render loop computes the frame's geometry.  calculate reads no scale,
\* so the scale it is given is not recorded.
Calculate ==
    /\ pc = "idle"
    /\ \E content_x \in ContentXs, content_y \in ContentYs,
          content_width \in ContentWidths, content_height \in ContentHeights,
          history_size \in HistorySizes, screen_lines \in ScreenLines,
          scale \in Scales :
          \E display_offset \in DisplayOffsets(history_size) :
             /\ args' = [content_x |-> content_x, content_y |-> content_y,
                         content_width |-> content_width,
                         content_height |-> content_height,
                         display_offset |-> display_offset,
                         history_size |-> history_size,
                         screen_lines |-> screen_lines]
             /\ state' = calculate(config, content_x, content_y, content_width,
                                   content_height, display_offset, history_size,
                                   screen_lines, scale)
    /\ pc' = "ready"
    /\ UNCHANGED <<config, call, result>>

\* A pointer event is classified against the geometry.
HitTest ==
    /\ pc = "ready"
    /\ \E scale \in Scales, lx \in PointerXs(state), ly \in PointerYs(state) :
          LET mouse_x == FMul(lx, scale)
              mouse_y == FMul(ly, scale)
          IN  /\ call' = [NoCall EXCEPT !.op = "hit_test", !.x = mouse_x,
                                        !.y = mouse_y, !.scale = scale]
              /\ result' = [NoResult EXCEPT
                              !.hit = hit_test(state, mouse_x, mouse_y, scale)]
    /\ pc' = "hit"
    /\ UNCHANGED <<config, args, state>>

\* The caller records whether the pointer is over the thumb.
SetHovered ==
    /\ pc = "hit"
    /\ state' = [state EXCEPT !.hovered = (result.hit = "Thumb")]
    /\ call' = NoCall
    /\ result' = NoResult
    /\ pc' = "hovered"
    /\ UNCHANGED <<config, args>>

\* A pointer position is mapped to a scroll offset.
YToOffset ==
    /\ pc = "ready"
    /\ \E scale \in Scales, ly \in PointerYs(state),
          history_size \in {0, args.history_size, InexactHistory} :
          LET y == FMul(ly, scale)
          IN  /\ call' = [NoCall EXCEPT !.op = "y_to_offset", !.y = y,
                                        !.scale = scale,
                                        !.history_size = history_size]
              /\ result' = [NoResult EXCEPT
                              !.offset = y_to_offset(state, y, history_size, scale)]
    /\ pc' = "mapped"
    /\ UNCHANGED <<config, args, state>>

\* The render loop draws the geometry.
DrawScrollbar ==
    /\ pc \in {"ready", "hovered"}
    /\ \E hovered \in BOOLEAN :
          /\ call' = [NoCall EXCEPT !.op = "draw_scrollbar", !.hovered = hovered]
          /\ result' = [NoResult EXCEPT
                          !.objects = draw_scrollbar(state, config, hovered)]
    /\ pc' = "drawn"
    /\ UNCHANGED <<config, args, state>>

Next == Calculate \/ HitTest \/ SetHovered \/ YToOffset \/ DrawScrollbar

Spec == Init /\ [][Next]_vars

-----------------------------------------------------------------------------
(* Quantities the properties speak of. *)

\* A geometry state has been computed by calculate.
Calculated == pc # "idle"

\* The edges and the centre of the thumb as hit_test and the tests compute
\* them.
TrackBottom == FAdd(state.track_y, state.track_height)
ThumbBottom == FAdd(state.thumb_y, state.thumb_height)
CentreX == FAdd(state.x, FDiv(state.width, Two))
CentreY == FAdd(state.thumb_y, FDiv(state.thumb_height, Two))
ScrollableRange == FSub(state.track_height, state.thumb_height)

\* |track_y| + |track_height| + |thumb_height|: the magnitude the rounding
\* errors of the geometry are relative to.
Magnitude == Abs(state.track_y) + Abs(state.track_height) + Abs(state.thumb_height)

\* The last call's pointer in logical pixels.
LogicalX == FDiv(call.x, call.scale)
LogicalY == FDiv(call.y, call.scale)

\* The rectangle draw_scrollbar is to emit.
ExpectedQuad(color, px, py, w, h) ==
    [color |-> color,
     position |-> <<px, py>>,
     size |-> <<w, h>>,
     border_radius |-> <<0, 0, 0, 0>>,
     shadow_blur_radius |-> 0,
     shadow_offset |-> <<0, 0>>,
     shadow_color |-> <<0, 0, 0, 0>>,
     border_color |-> <<0, 0, 0, 0>>,
     border_width |-> 0]

-----------------------------------------------------------------------------
(* C1 *)

\* C1: the state calculate returns is visible exactly when the mode is Always,
\* or the mode is Auto and history_size > 0; never when the mode is Never.
C1_Visibility ==
    Calculated =>
        state.visible = (CASE config.mode = "Always" -> TRUE
                           [] config.mode = "Never" -> FALSE
                           [] config.mode = "Auto" -> args.history_size > 0)

C1_Witness ==
    /\ pc = "ready"
    /\ config.mode = "Auto"
    /\ args.history_size = 0
    /\ ~state.visible

-----------------------------------------------------------------------------
(* C2 *)

\* C2 as stated: with display_offset = 0 the thumb's bottom edge equals the
\* track's bottom edge exactly.
C2_BottomExact ==
    (Calculated /\ state.visible /\ args.display_offset = 0)
        => ThumbBottom = TrackBottom

\* C2 amended: with display_offset = 0 the thumb's bottom edge is within
\* floating-point tolerance of the track's bottom edge: they differ by at most
\* 8 * 2^-Prec * (|track_y| + |track_height| + |thumb_height|).
C2_BottomWithinTolerance ==
    (Calculated /\ state.visible /\ args.display_offset = 0)
        => Abs(ThumbBottom - TrackBottom) * MantissaLimit <= 8 * Magnitude

C2_Witness ==
    /\ pc = "ready"
    /\ state.visible
    /\ args.display_offset = 0
    /\ args.history_size > 0
    /\ ThumbBottom # TrackBottom
    /\ Abs(ThumbBottom - TrackBottom) * MantissaLimit <= 8 * Magnitude

-----------------------------------------------------------------------------
(* C3 *)

\* C3: with display_offset = history_size > 0 the thumb's top edge is the
\* track's top edge.
C3_TopAtMaxOffset ==
    (Calculated /\ state.visible /\ args.history_size > 0
       /\ args.display_offset = args.history_size)
        => state.thumb_y = state.track_y

C3_Witness ==
    /\ pc = "ready"
    /\ state.visible
    /\ args.history_size = LargestExactHistory
    /\ args.display_offset = args.history_size
    /\ ScrollableRange > 0
    /\ state.track_y > 0
    /\ state.thumb_y = state.track_y

-----------------------------------------------------------------------------
(* C4 *)

\* C4: the offset y_to_offset returns lies in [0, history_size].
C4_OffsetInRange ==
    pc = "mapped" => (0 <= result.offset /\ result.offset <= call.history_size)

-----------------------------------------------------------------------------
(* C5 *)

\* The pointer of the last hit_test is at the thumb's centre.
AtThumbCentre ==
    /\ pc = "hit"
    /\ state.visible
    /\ LogicalX = CentreX
    /\ LogicalY = CentreY

\* The thumb lies inside the track by the comparisons hit_test makes.
ThumbInsideTrack ==
    /\ state.width >= 0
    /\ state.thumb_height >= 0
    /\ state.track_y <= state.thumb_y
    /\ ThumbBottom <= TrackBottom

\* C5 as stated: hit_test at the thumb's centre returns Thumb for every visible
\* state calculate returns.
C5_CentreIsThumb == AtThumbCentre => result.hit = "Thumb"

\* C5 amended: hit_test at the thumb's centre returns Thumb for every visible
\* state calculate returns whose thumb lies inside its track (width >= 0,
\* thumb_height >= 0, track_y <= thumb_y and thumb_y + thumb_height <=
\* track_y + track_height as f32 computes them).
C5_CentreIsThumbInsideTrack ==
    (AtThumbCentre /\ ThumbInsideTrack) => result.hit = "Thumb"

C5_Witness ==
    /\ AtThumbCentre
    /\ ThumbInsideTrack
    /\ call.scale # One
    /\ ScrollableRange > 0
    /\ args.display_offset > 0
    /\ args.display_offset < args.history_size
    /\ result.hit = "Thumb"

-----------------------------------------------------------------------------
(* C6 *)

\* C6: draw_scrollbar returns no rectangle for a state that is not visible, and
\* for a visible state the track (track_color, at (x, track_y), of size (width,
\* track_height)) followed by the thumb (at (x, thumb_y), of size (width,
\* thumb_height)) in thumb_hover_color when the hover flag is true and in
\* thumb_color when it is false.
C6_DrawOutput ==
    pc = "drawn" =>
        result.objects =
            IF ~state.visible THEN <<>>
            ELSE <<ExpectedQuad(config.track_color, state.x, state.track_y,
                                state.width, state.track_height),
                   ExpectedQuad(IF call.hovered THEN config.thumb_hover_color
                                ELSE config.thumb_color,
                                state.x, state.thumb_y,
                                state.width, state.thumb_height)>>

C6_Witness ==
    /\ pc = "drawn"
    /\ state.visible
    /\ call.hovered
    /\ state.thumb_y # state.track_y
    /\ Len(result.objects) = 2
    /\ result.objects[1].color = config.track_color
    /\ result.objects[2].color = config.thumb_hover_color

-----------------------------------------------------------------------------
(* C7 *)

\* The logical pointer of the last hit_test is strictly outside the track box.
OutsideTrackBox ==
    \/ LogicalX < state.x
    \/ LogicalX > FAdd(state.x, state.width)
    \/ LogicalY < state.track_y
    \/ LogicalY > TrackBottom

\* C7: hit_test returns None exactly when the state is not visible or the
\* logical pointer is strictly outside the track box; inside the box it
\* returns Thumb when thumb_y <= y <= thumb_y + thumb_height, TrackAbove when
\* y < thumb_y and TrackBelow when y > thumb_y + thumb_height.
C7_InclusiveClassification ==
    pc = "hit" =>
        /\ (result.hit = "None") <=> (~state.visible \/ OutsideTrackBox)
        /\ (state.visible /\ ~OutsideTrackBox) =>
              /\ (state.thumb_y <= LogicalY /\ LogicalY <= ThumbBottom)
                    => result.hit = "Thumb"
              /\ LogicalY < state.thumb_y => result.hit = "TrackAbove"
              /\ LogicalY > ThumbBottom => result.hit = "TrackBelow"

C7_Witness ==
    /\ pc = "hit"
    /\ state.visible
    /\ LogicalX = FAdd(state.x, state.width)
    /\ LogicalY = ThumbBottom
    /\ ThumbBottom < TrackBottom
    /\ state.thumb_height > 0
    /\ result.hit = "Thumb"

-----------------------------------------------------------------------------
(* C8 *)

\* C8 as stated: the thumb is drawn in thumb_hover_color when the state's
\* hovered field is true and in thumb_color when it is false.
C8_ColourByHoveredField ==
    (pc = "drawn" /\ state.visible) =>
        result.objects[2].color =
            IF state.hovered THEN config.thumb_hover_color ELSE config.thumb_color

\* C8 amended: calculate returns hovered = false, and draw_scrollbar selects
\* the thumb's colour by its hover flag argument, whatever the state's hovered
\* field holds: thumb_hover_color when the argument is true, thumb_color when
\* it is false.
C8_ColourByHoverArgument ==
    /\ pc = "ready" => ~state.hovered
    /\ (pc = "drawn" /\ state.visible) =>
          result.objects[2].color =
              IF call.hovered THEN config.thumb_hover_color ELSE config.thumb_color

C8_Witness ==
    /\ pc = "drawn"
    /\ state.visible
    /\ state.hovered
    /\ ~call.hovered
    /\ result.objects[2].color = config.thumb_color
    /\ config.thumb_color # config.thumb_hover_color

-----------------------------------------------------------------------------
(* C9 *)

\* The last call maps the physical y of the thumb's centre back to an offset,
\* with the history size the geometry was computed from.
RoundTrip ==
    /\ pc = "mapped"
    /\ state.visible
    /\ args.history_size > 0
    /\ args.display_offset <= args.history_size
    /\ ScrollableRange > 0
    /\ call.history_size = args.history_size
    /\ call.y = FMul(CentreY, call.scale)

\* |returned offset - display_offset|
OffsetError == Abs(result.offset - args.display_offset)

\* OffsetError <= 1/2 + history_size * (16 * 2^-Prec * (1 + Magnitude / range)
\*                                      + 2 * 2^-FracBits * (1 + 1 / range))
\* for range = track_height - thumb_height > 0, both sides multiplied by
\* 2 * range * 2^(Prec-4) * 2^FracBits and the quotient by 2^FracBits taken
\* apart so that no product exceeds the integers of the checker.
WithinRoundTripError ==
    LET range == ScrollableRange
        a == (2 * OffsetError - 1) * range * (MantissaLimit \div 16)
        b == 2 * args.history_size * (range + Magnitude)
        c == args.history_size * (MantissaLimit \div 4)
    IN  a - b - c * (1 + (range \div One)) <= (c * (range % One)) \div One

\* C9 as stated: y_to_offset at the physical y of the thumb's centre returns
\* exactly display_offset.
C9_RoundTripExact == RoundTrip => result.offset = args.display_offset

\* C9 amended: for scale >= 1, y_to_offset at the physical y of the thumb's
\* centre returns display_offset up to the rounding of f32:
\* |result - display_offset| <= 1/2 + history_size * (16 u (1 + (|track_y| +
\* |track_height| + |thumb_height|) / (track_height - thumb_height))
\* + 4 e (1 + 1 / (track_height - thumb_height))), with u = 2^-Prec the unit
\* roundoff and e = 2^-(FracBits+1) half the least quantum; it is exactly
\* display_offset whenever that bound is below 1.
C9_RoundTripWithinError ==
    (RoundTrip /\ call.scale >= One) => WithinRoundTripError

C9_Witness ==
    /\ RoundTrip
    /\ call.scale > One
    /\ args.display_offset > 0
    /\ args.display_offset < args.history_size
    /\ args.history_size = MaxSmallHistory
    /\ state.track_y > 0
    /\ state.thumb_height > 0
    /\ result.offset = args.display_offset

-----------------------------------------------------------------------------
(* C10 *)

\* calculate was given an offset within the history and a minimum thumb
\* height within the content height.
InRangeInputs ==
    /\ Calculated
    /\ state.visible
    /\ args.display_offset <= args.history_size
    /\ 0 <= config.thumb_min_height
    /\ config.thumb_min_height <= args.content_height

\* C10 as stated: the thumb lies wholly inside the track, and its height is
\* between thumb_min_height and track_height.
C10_ThumbInsideTrackExact ==
    InRangeInputs =>
        /\ state.track_y <= state.thumb_y
        /\ ThumbBottom <= TrackBottom
        /\ config.thumb_min_height <= state.thumb_height
        /\ state.thumb_height <= state.track_height

\* C10 amended: the thumb's top is not above the track's top, its height is
\* between thumb_min_height and track_height, and its bottom edge is below the
\* track's bottom edge by at most the floating-point tolerance
\* 8 * 2^-Prec * (|track_y| + |track_height| + |thumb_height|).
C10_ThumbInsideTrackWithinTolerance ==
    InRangeInputs =>
        /\ state.track_y <= state.thumb_y
        /\ (ThumbBottom - TrackBottom) * MantissaLimit <= 8 * Magnitude
        /\ config.thumb_min_height <= state.thumb_height
        /\ state.thumb_height <= state.track_height

C10_Witness ==
    /\ InRangeInputs
    /\ pc = "ready"
    /\ ThumbBottom > TrackBottom
    /\ state.track_y <= state.thumb_y
    /\ config.thumb_min_height <= state.thumb_height
    /\ state.thumb_height < state.track_height

====
